---- MODULE Spec2Model ----
(***************************************************************************)
(* State-machine model of the Pyth Hermes client's stream supervisor,      *)
(* HermesClient::stream_price_updates (crates/client/src/lib.rs).          *)
(*                                                                         *)
(* One supervisor task is spawned per call.  The task's control points:    *)
(*   "Connecting"  top of the `loop`: build the request, EventSource::new  *)
(*   "Backoff"     suspended in tokio::time::sleep(2 s)                    *)
(*   "Reading"     suspended in es.next().await                            *)
(*   "Dispatch"    inside `for item in parsed` (synchronous)               *)
(*   "InSink"      inside on_event(parsed_update) (synchronous)            *)
(*   "Cancelled"   the task was dropped after JoinHandle::abort            *)
(*   "Panicked"    the task unwound because on_event panicked              *)
(* Rust Option values are sequences: << >> is None, <<v>> is Some(v).      *)
(***************************************************************************)
EXTENDS Integers, Sequences, FiniteSets, TLC

VARIABLES
    base_url,   \* HermesClient.base_url
    pc,         \* per task: control point
    ids,        \* per task: the Vec<String> moved into the task
    ids0,       \* per task: the ids argument as the caller passed it (history)
    result,     \* per task: what stream_price_updates returned to the caller
    abortReq,   \* per task: JoinHandle::abort has been called
    conn,       \* per task: state of the task's EventSource `es`
    req,        \* per task: the request built by the latest loop iteration
    sleepLeft,  \* per task: seconds left of the backoff sleep
    items,      \* per task: entries of `parsed` the for loop has not visited
    wire,       \* per task: msg.data of every Message event received (history)
    sinkLog,    \* per task: arguments of every on_event call (history)
    curOut,     \* per task: on_event calls made for the latest message (history)
    lastEv,     \* per task: what the task handled last (history)
    endedOnce,  \* per task: an opened connection has ended (history)
    sinceOpen,  \* per task: messages received on the current connection (history)
    rpc,        \* the request/response call in flight or last returned
    px          \* an RpcPrice and what to_f64 returned for it

vars == <<base_url, pc, ids, ids0, result, abortReq, conn, req, sleepLeft,
          items, wire, sinkLog, curOut, lastEv, endedOnce, sinceOpen, rpc, px>>

\* All that belongs to the stream tasks.
streamVars == <<pc, ids, ids0, result, abortReq, conn, req, sleepLeft,
                items, wire, sinkLog, curOut, lastEv, endedOnce, sinceOpen>>

\* ------------------------------------------------------------------ bounds
\* Number of Message events the server sends to one task.
MaxMsgs == 2

\* Number of Message events per task when two tasks run side by side.
MaxMsgsPair == 1

\* ------------------------------------------------------------- constants
PUBLIC_BASE_URL == "https://hermes.pyth.network"

MalformedBaseUrl == "hermes pyth network"

StreamPath == "/v2/updates/price/stream"

\* tokio::time::sleep(Duration::from_secs(2))
BackoffSecs == 2

Tasks == {1, 2}

\* ------------------------------------------------------------ wire types
\* RpcPrice values
PriceA == [price |-> "12971500000", conf |-> "6486733", expo |-> -8, publish_time |-> 1744523548]

PriceB == [price |-> "160644665033", conf |-> "73725033", expo |-> -8, publish_time |-> 1744523627]

\* RpcPriceFeedMetadata values
MetaA == [emitter_chain |-> <<26>>, prev_publish_time |-> <<1744523547>>, price_service_receive_time |-> <<1744523549>>, slot |-> <<7>>]

MetaB == [emitter_chain |-> << >>, prev_publish_time |-> << >>, price_service_receive_time |-> << >>, slot |-> << >>]

\* JSON objects found in the `parsed` array of a message.  A key the object
\* does not carry is << >>.
JEthMeta == [id |-> <<"eth">>, price |-> <<PriceA>>, ema_price |-> <<PriceB>>, metadata |-> <<MetaA>>, vaa |-> << >>]

JSolNoMeta == [id |-> <<"sol">>, price |-> <<PriceB>>, ema_price |-> <<PriceA>>, metadata |-> << >>, vaa |-> <<"AQ">>]

JSolMeta == [id |-> <<"sol">>, price |-> <<PriceB>>, ema_price |-> <<PriceB>>, metadata |-> <<MetaB>>, vaa |-> << >>]

JNoPrice == [id |-> <<"eth">>, price |-> << >>, ema_price |-> <<PriceB>>, metadata |-> <<MetaA>>, vaa |-> << >>]

BinaryA == [encoding |-> "hex", data |-> <<"504e4155">>]

\* The `parsed` arrays the server sends.
ParsedLists ==
    { << >>, <<JEthMeta>>, <<JSolNoMeta>>, <<JEthMeta, JSolMeta>>,
      <<JSolNoMeta, JEthMeta>>, <<JEthMeta, JSolNoMeta, JSolMeta>> }

\* msg.data of a Message event: text that is or is not JSON, and for JSON text
\* the top-level keys `binary` and `parsed`.
DocNotJson == [json |-> FALSE, binary |-> << >>, parsed |-> << >>]

DocNoBinary == [json |-> TRUE, binary |-> << >>, parsed |-> << <<JEthMeta>> >>]

DocBadEntry == [json |-> TRUE, binary |-> <<BinaryA>>, parsed |-> << <<JEthMeta, JNoPrice>> >>]

DocBinaryOnly == [json |-> TRUE, binary |-> <<BinaryA>>, parsed |-> << >>]

Docs ==
    {DocNotJson, DocNoBinary, DocBadEntry, DocBinaryOnly}
    \cup {[json |-> TRUE, binary |-> <<BinaryA>>, parsed |-> <<l>>] : l \in ParsedLists}

\* A smaller alphabet: an undecodable message and one with two entries, the
\* second with metadata.
DocsPair ==
    {DocNotJson, [json |-> TRUE, binary |-> <<BinaryA>>, parsed |-> << <<JSolNoMeta, JEthMeta>> >>]}

\* The feed id lists callers pass.
IdLists == { << >>, <<"eth">>, <<"eth", "sol">>, <<"sol", "eth">> }

IdListsPair == { <<"eth">>, <<"sol", "eth">> }

\* ------------------------------------------------------- pure operators
\* serde's decoding of one element of `parsed` as RpcPriceFeed: id, price and
\* ema_price are required, metadata and vaa are Option fields.
DecodeFeed(j) ==
    IF j.id = << >> \/ j.price = << >> \/ j.ema_price = << >>
    THEN << >>
    ELSE << [id |-> j.id[1], price |-> j.price[1], ema_price |-> j.ema_price[1],
             metadata |-> j.metadata, vaa |-> j.vaa] >>

\* serde_json::from_str::<PriceUpdate>(&msg.data): << >> is Err, <<u>> is Ok(u).
\* `binary` is required; `parsed` is Option<Vec<RpcPriceFeed>>.
Decode(doc) ==
    IF ~doc.json \/ doc.binary = << >> THEN << >>
    ELSE IF doc.parsed = << >> THEN << [binary |-> doc.binary[1], parsed |-> << >>] >>
    ELSE LET l == doc.parsed[1] IN
         IF \E i \in 1..Len(l) : DecodeFeed(l[i]) = << >> THEN << >>
         ELSE << [binary |-> doc.binary[1],
                  parsed |-> << [i \in 1..Len(l) |-> DecodeFeed(l[i])[1]] >>] >>

\* `if let Some(metadata) = item.metadata.clone()`
HasMetadata(item) == item.metadata # << >>

\* The ParsedPriceUpdate built for an item that carries metadata.
MakeUpdateSwapped(item) ==
    [id |-> item.id, price |-> item.ema_price, ema_price |-> item.price,
     metadata |-> item.metadata[1]]

MakeUpdate(item) ==
    [id |-> item.id, price |-> item.price, ema_price |-> item.ema_price,
     metadata |-> item.metadata[1]]

\* The item the for loop visits next, and what is left after it.
NextItemLast(l) == l[Len(l)]

NextItem(l) == Head(l)

RestItems(l) == Tail(l)

\* `for id in &ids { req = req.query(&[("ids[]", id)]); }`
RECURSIVE AddIds(_, _)
AddIds(query, idl) ==
    IF idl = << >> THEN query
    ELSE AddIds(Append(query, <<"ids[]", Head(idl)>>), Tail(idl))

\* The request of one loop iteration: format!("{}/v2/updates/price/stream", base_url)
\* and one ids[] pair per id.
BuildRequest(base, idl) == [url |-> <<base, StreamPath>>, query |-> AddIds(<< >>, idl)]

\* The loop borrows `&ids`: the vector is the same after the request is built.
IdsAfterBuildDrained(idl) == << >>

IdsAfterBuild(idl) == idl

\* Whether the request of a client with this base URL can be built.
UrlOk(base) == base = PUBLIC_BASE_URL

\* The outcomes of EventSource::new(req): Err when the request cannot be
\* cloned, which is the case of a request whose URL did not parse.
NewOutcomes(base) == IF UrlOk(base) THEN {"Ok", "Err"} ELSE {"Err"}

\* What stream_price_updates returns: `Ok(handler)` is its only return.
StartOutcomeFailing(base) == IF UrlOk(base) THEN "Err" ELSE "Handle"

StartOutcome(base) == "Handle"

\* Where the task goes after EventSource::new failed: sleep, then `continue`.
OnNewErrReturn == "Stopped"

OnNewErr == "Backoff"

\* Where the task goes after es.next() gave Err(_): `break`, then the next
\* iteration of `loop`.
OnStreamErrReturn == "Stopped"

OnStreamErr == "Connecting"

\* Where the task goes after es.next() gave an Err other than StreamEnded:
\* log, `break`, the same as the arm above and with no sleep.
OnFaultBackoff == "Backoff"

OnFault == "Connecting"

\* The task's EventSource after a `break` out of the while loop: `es` is a
\* local of the loop body and is dropped before the next iteration begins.
EsAfterBreakKept == "open"

EsAfterBreak == "none"

\* Where the task goes after a message that decodes: into the for loop with
\* Some(parsed), back to es.next() with None.
AfterDecodeBreak(parsed) == IF parsed = << >> THEN "Connecting" ELSE "Dispatch"

AfterDecode(parsed) == IF parsed = << >> THEN "Reading" ELSE "Dispatch"

\* What a panic of on_event does to the task: nothing catches it.
OnSinkPanicCaught == "Dispatch"

OnSinkPanic == "Panicked"

\* Where the task goes after a message that does not decode: the `if let Ok`
\* has no else branch, the while loop goes on.
OnDecodeErrBreak == "Connecting"

OnDecodeErr == "Reading"

\* The sink a task's on_event call reaches: the closure moved into that task.
SinkOfShared(t) == 1

SinkOf(t) == t

\* A task suspended at an await is resumed only if it was not aborted.
ResumableAlways(aborted) == TRUE

Resumable(aborted) == ~aborted

\* ------------------------------------------------------------ the state
\* No request/response call has been made.
RpcIdle == [pc |-> "idle", op |-> "none", sent |-> 0, request |-> << >>, resp |-> << >>, outcome |-> << >>]

\* No RpcPrice is under conversion.
PxNone == [pc |-> "none"]

Init ==
    /\ base_url \in {PUBLIC_BASE_URL, MalformedBaseUrl}
    /\ pc = [t \in Tasks |-> "NotStarted"]
    /\ ids = [t \in Tasks |-> << >>]
    /\ ids0 = [t \in Tasks |-> << >>]
    /\ result = [t \in Tasks |-> "None"]
    /\ abortReq = [t \in Tasks |-> FALSE]
    /\ conn = [t \in Tasks |-> "none"]
    /\ req = [t \in Tasks |-> << >>]
    /\ sleepLeft = [t \in Tasks |-> 0]
    /\ items = [t \in Tasks |-> << >>]
    /\ wire = [t \in Tasks |-> << >>]
    /\ sinkLog = [t \in Tasks |-> << >>]
    /\ curOut = [t \in Tasks |-> << >>]
    /\ lastEv = [t \in Tasks |-> "none"]
    /\ endedOnce = [t \in Tasks |-> FALSE]
    /\ sinceOpen = [t \in Tasks |-> 0]
    /\ rpc = RpcIdle
    /\ px = PxNone

\* ---------------------------------------------------------- the caller
\* stream_price_updates(ids, on_event): clone base_url and the client, spawn
\* the task, return Ok(handler).
Start(t, I) ==
    /\ pc[t] = "NotStarted"
    /\ \E idl \in I :
        /\ ids' = [ids EXCEPT ![t] = idl]
        /\ ids0' = [ids0 EXCEPT ![t] = idl]
    /\ result' = [result EXCEPT ![t] = StartOutcome(base_url)]
    /\ pc' = [pc EXCEPT ![t] = "Connecting"]
    /\ UNCHANGED <<rpc, px, base_url, abortReq, conn, req, sleepLeft, items, wire,
                   sinkLog, curOut, lastEv, endedOnce, sinceOpen>>

\* handler.abort(): the task is marked; it is dropped at its next suspension.
Abort(t) ==
    /\ result[t] = "Handle"
    /\ pc[t] \notin {"NotStarted", "Cancelled", "Panicked"}
    /\ ~abortReq[t]
    /\ abortReq' = [abortReq EXCEPT ![t] = TRUE]
    /\ UNCHANGED <<rpc, px, base_url, pc, ids, ids0, result, conn, req, sleepLeft, items,
                   wire, sinkLog, curOut, lastEv, endedOnce, sinceOpen>>

\* The runtime drops an aborted task that is suspended at an await; its
\* EventSource is dropped with it.
Cancel(t) ==
    /\ abortReq[t]
    /\ pc[t] \in {"Reading", "Backoff"}
    /\ pc' = [pc EXCEPT ![t] = "Cancelled"]
    /\ conn' = [conn EXCEPT ![t] = "none"]
    /\ UNCHANGED <<rpc, px, base_url, ids, ids0, result, abortReq, req, sleepLeft, items,
                   wire, sinkLog, curOut, lastEv, endedOnce, sinceOpen>>

\* ------------------------------------------------------------ the task
\* One pass through the top of `loop`: build the request, EventSource::new.
\* Ok: the while loop awaits es.next().  Err: log, sleep 2 s.
Connect(t) ==
    /\ pc[t] = "Connecting"
    /\ req' = [req EXCEPT ![t] = <<BuildRequest(base_url, ids[t])>>]
    /\ ids' = [ids EXCEPT ![t] = IdsAfterBuild(ids[t])]
    /\ \E out \in NewOutcomes(base_url) :
        IF out = "Ok"
        THEN /\ pc' = [pc EXCEPT ![t] = "Reading"]
             /\ conn' = [conn EXCEPT ![t] = "opening"]
             /\ lastEv' = [lastEv EXCEPT ![t] = "new_ok"]
             /\ UNCHANGED sleepLeft
        ELSE /\ pc' = [pc EXCEPT ![t] = OnNewErr]
             /\ conn' = [conn EXCEPT ![t] = "none"]
             /\ lastEv' = [lastEv EXCEPT ![t] = "new_err"]
             /\ sleepLeft' = [sleepLeft EXCEPT ![t] = BackoffSecs]
    /\ sinceOpen' = [sinceOpen EXCEPT ![t] = 0]
    /\ UNCHANGED <<rpc, px, base_url, ids0, result, abortReq, items, wire, sinkLog,
                   curOut, endedOnce>>

\* One second of the backoff sleep passes.
Tick(t) ==
    /\ pc[t] = "Backoff"
    /\ sleepLeft[t] > 0
    /\ sleepLeft' = [sleepLeft EXCEPT ![t] = @ - 1]
    /\ UNCHANGED <<rpc, px, base_url, pc, ids, ids0, result, abortReq, conn, req, items,
                   wire, sinkLog, curOut, lastEv, endedOnce, sinceOpen>>

\* The sleep is over: `continue`.
BackoffDone(t) ==
    /\ pc[t] = "Backoff"
    /\ sleepLeft[t] = 0
    /\ Resumable(abortReq[t])
    /\ pc' = [pc EXCEPT ![t] = "Connecting"]
    /\ lastEv' = [lastEv EXCEPT ![t] = "slept"]
    /\ UNCHANGED <<rpc, px, base_url, ids, ids0, result, abortReq, conn, req, sleepLeft,
                   items, wire, sinkLog, curOut, endedOnce, sinceOpen>>

\* es.next() gives Ok(Event::Open): nothing to do, await the next event.
EvOpen(t) ==
    /\ pc[t] = "Reading"
    /\ conn[t] = "opening"
    /\ Resumable(abortReq[t])
    /\ conn' = [conn EXCEPT ![t] = "open"]
    /\ lastEv' = [lastEv EXCEPT ![t] = "open"]
    /\ UNCHANGED <<rpc, px, base_url, pc, ids, ids0, result, abortReq, req, sleepLeft,
                   items, wire, sinkLog, curOut, endedOnce, sinceOpen>>

\* es.next() gives Ok(Event::Message(msg)): decode msg.data; with Ok and
\* Some(parsed) enter the for loop, otherwise await the next event.
EvMessage(t, D, n) ==
    /\ pc[t] = "Reading"
    /\ conn[t] = "open"
    /\ Resumable(abortReq[t])
    /\ Len(wire[t]) < n
    /\ \E doc \in D :
        /\ wire' = [wire EXCEPT ![t] = Append(@, doc)]
        /\ LET u == Decode(doc) IN
           IF u = << >>
           THEN /\ pc' = [pc EXCEPT ![t] = OnDecodeErr]
                /\ conn' = [conn EXCEPT ![t] = IF OnDecodeErr = "Reading" THEN @ ELSE "none"]
                /\ lastEv' = [lastEv EXCEPT ![t] = "bad_msg"]
                /\ items' = [items EXCEPT ![t] = << >>]
           ELSE /\ pc' = [pc EXCEPT ![t] = AfterDecode(u[1].parsed)]
                /\ conn' = conn
                /\ lastEv' = [lastEv EXCEPT ![t] = "msg"]
                /\ items' = [items EXCEPT ![t] = IF u[1].parsed = << >> THEN << >> ELSE u[1].parsed[1]]
    /\ curOut' = [curOut EXCEPT ![t] = << >>]
    /\ sinceOpen' = [sinceOpen EXCEPT ![t] = @ + 1]
    /\ UNCHANGED <<rpc, px, base_url, ids, ids0, result, abortReq, req, sleepLeft,
                   sinkLog, endedOnce>>

\* One iteration of `for item in parsed`: with metadata, build the
\* ParsedPriceUpdate and call on_event; without, go on.  After the last item
\* the while loop awaits the next event.
DispatchStep(t) ==
    /\ pc[t] = "Dispatch"
    /\ IF items[t] = << >>
       THEN /\ pc' = [pc EXCEPT ![t] = "Reading"]
            /\ UNCHANGED <<items, sinkLog, curOut>>
       ELSE LET item == NextItem(items[t]) IN
            /\ items' = [items EXCEPT ![t] = RestItems(@)]
            /\ IF HasMetadata(item)
               THEN /\ sinkLog' = [sinkLog EXCEPT ![SinkOf(t)] = Append(@, MakeUpdate(item))]
                    /\ curOut' = [curOut EXCEPT ![t] = Append(@, MakeUpdate(item))]
                    /\ pc' = [pc EXCEPT ![t] = "InSink"]
               ELSE UNCHANGED <<pc, sinkLog, curOut>>
    /\ UNCHANGED <<rpc, px, base_url, ids, ids0, result, abortReq, conn, req, sleepLeft,
                   wire, lastEv, endedOnce, sinceOpen>>

\* on_event returns: the for loop goes on.
SinkReturn(t) ==
    /\ pc[t] = "InSink"
    /\ pc' = [pc EXCEPT ![t] = "Dispatch"]
    /\ UNCHANGED <<rpc, px, base_url, ids, ids0, result, abortReq, conn, req, sleepLeft,
                   items, wire, sinkLog, curOut, lastEv, endedOnce, sinceOpen>>

\* on_event panics: nothing in the task catches it, the task unwinds and
\* drops `parsed` and `es`.
SinkPanic(t) ==
    /\ pc[t] = "InSink"
    /\ pc' = [pc EXCEPT ![t] = OnSinkPanic]
    /\ conn' = [conn EXCEPT ![t] = IF OnSinkPanic = "Panicked" THEN "none" ELSE @]
    /\ items' = [items EXCEPT ![t] = IF OnSinkPanic = "Panicked" THEN << >> ELSE @]
    /\ lastEv' = [lastEv EXCEPT ![t] = "sink_panic"]
    /\ UNCHANGED <<rpc, px, base_url, ids, ids0, result, abortReq, req, sleepLeft, wire,
                   sinkLog, curOut, endedOnce, sinceOpen>>

\* es.next() gives Err(EventSourceError::StreamEnded): log, break; `es` is
\* dropped at the end of the loop body.
EvStreamEnded(t) ==
    /\ pc[t] = "Reading"
    /\ conn[t] = "open"
    /\ Resumable(abortReq[t])
    /\ pc' = [pc EXCEPT ![t] = OnStreamErr]
    /\ conn' = [conn EXCEPT ![t] = EsAfterBreak]
    /\ lastEv' = [lastEv EXCEPT ![t] = "ended"]
    /\ endedOnce' = [endedOnce EXCEPT ![t] = TRUE]
    /\ UNCHANGED <<rpc, px, base_url, ids, ids0, result, abortReq, req, sleepLeft, items,
                   wire, sinkLog, curOut, sinceOpen>>

\* es.next() gives any other Err(err): log, break.  Before Event::Open the
\* error is the failure to open the connection, after it a fault of the stream.
EvError(t) ==
    /\ pc[t] = "Reading"
    /\ conn[t] \in {"opening", "open"}
    /\ Resumable(abortReq[t])
    /\ pc' = [pc EXCEPT ![t] = OnFault]
    /\ conn' = [conn EXCEPT ![t] = EsAfterBreak]
    /\ lastEv' = [lastEv EXCEPT ![t] = IF conn[t] = "opening" THEN "open_err" ELSE "fault"]
    /\ endedOnce' = [endedOnce EXCEPT ![t] = @ \/ conn[t] = "open"]
    /\ UNCHANGED <<rpc, px, base_url, ids, ids0, result, abortReq, req, sleepLeft, items,
                   wire, sinkLog, curOut, sinceOpen>>

\* es.next() gives None: the `while let` ends, the loop starts over.
EvNone(t) ==
    /\ pc[t] = "Reading"
    /\ conn[t] = "open"
    /\ Resumable(abortReq[t])
    /\ pc' = [pc EXCEPT ![t] = "Connecting"]
    /\ conn' = [conn EXCEPT ![t] = EsAfterBreak]
    /\ lastEv' = [lastEv EXCEPT ![t] = "eof"]
    /\ endedOnce' = [endedOnce EXCEPT ![t] = TRUE]
    /\ UNCHANGED <<rpc, px, base_url, ids, ids0, result, abortReq, req, sleepLeft, items,
                   wire, sinkLog, curOut, sinceOpen>>

\* The steps of task t, its caller and its server.
Step(t, D, n, I) ==
    \/ Start(t, I)
    \/ Abort(t)
    \/ Cancel(t)
    \/ Connect(t)
    \/ Tick(t)
    \/ BackoffDone(t)
    \/ EvOpen(t)
    \/ EvMessage(t, D, n)
    \/ DispatchStep(t)
    \/ SinkReturn(t)
    \/ SinkPanic(t)
    \/ EvStreamEnded(t)
    \/ EvError(t)
    \/ EvNone(t)

\* One stream task.
Next == \E t \in {1} : Step(t, Docs, MaxMsgs, IdLists)

Spec == Init /\ [][Next]_vars

\* One stream task with the smaller alphabet.
NextLive == \E t \in {1} : Step(t, DocsPair, MaxMsgs, IdListsPair)

\* The runtime runs a task that can run: the synchronous parts of the loop go
\* on, the timer of the sleep fires, and an aborted task that is suspended is
\* dropped.  Nothing is assumed of the server, of the caller, or of the sink's
\* return.
LiveSpec ==
    /\ Init
    /\ [][NextLive]_vars
    /\ WF_vars(Connect(1))
    /\ WF_vars(DispatchStep(1))
    /\ WF_vars(Tick(1))
    /\ WF_vars(BackoffDone(1))
    /\ WF_vars(Cancel(1))

\* Two stream tasks of one client.
NextPair == \E t \in Tasks : Step(t, DocsPair, MaxMsgsPair, IdListsPair)

SpecPair == Init /\ [][NextPair]_vars

\* ------------------------------------------------ the request/response calls
\* The five calls that send one GET and decode the body.
RpcOps ==
    {"get_latest_price_feeds", "get_price_feeds_metadata", "get_price_updates_by_time",
     "get_latest_twaps", "get_latest_publisher_stake_caps"}

\* The calls that take `ids`.
OpsWithIds == {"get_latest_price_feeds", "get_price_updates_by_time", "get_latest_twaps"}

\* The type each call hands to resp.json::<T>().
ResponseType(op) ==
    CASE op = "get_latest_price_feeds" -> "PriceUpdate"
      [] op = "get_price_feeds_metadata" -> "Vec<PriceFeedMetadata>"
      [] op = "get_price_updates_by_time" -> "PriceUpdate"
      [] op = "get_latest_twaps" -> "TwapsResponse"
      [] op = "get_latest_publisher_stake_caps" -> "LatestPublisherStakeCapsUpdateDataResponse"

\* The format! string of each call, after "{base_url}".
PathOf(op) ==
    CASE op = "get_latest_price_feeds" -> "/v2/updates/price/latest"
      [] op = "get_price_feeds_metadata" -> "/v2/price_feeds"
      [] op = "get_price_updates_by_time" -> "/v2/updates/price/{publish_time}"
      [] op = "get_latest_twaps" -> "/v2/updates/twap/{window_seconds}/latest"
      [] op = "get_latest_publisher_stake_caps" -> "/v2/updates/publisher_stake_caps/latest"

\* The request a call builds; the metadata call is made with both filters None.
RpcRequest(base, op, idl) ==
    [url |-> <<base, PathOf(op)>>,
     query |-> IF op \in OpsWithIds THEN AddIds(<< >>, idl) ELSE << >>]

\* The three response types made of `binary` and an optional `parsed` list.
Envelopes == {"PriceUpdate", "TwapsResponse", "LatestPublisherStakeCapsUpdateDataResponse"}

TwapA == [id |-> "eth", start_timestamp |-> 1, end_timestamp |-> 2, twap |-> PriceA, down_slots_ratio |-> "0"]

StakeCapsA == [publisher_stake_caps |-> << [publisher |-> "pub", cap |-> 7] >>]

FeedMetadataA == [id |-> "eth", attributes |-> {<<"symbol", "ETH/USD">>}]

\* The response types whose entries the `parsed` list of a body could be: a
\* body without entries suits all three envelopes.
FitsOf(d) ==
    IF d.parsed = << >> \/ d.parsed = << << >> >> THEN Envelopes ELSE {"PriceUpdate"}

\* Response bodies: every stream document, a TWAP document, a stake caps
\* document, and two JSON arrays of feed metadata.
RpcBodies ==
    {[fits |-> FitsOf(d), doc |-> d] : d \in Docs}
    \cup {[fits |-> {"TwapsResponse"},
           doc |-> [json |-> TRUE, binary |-> <<BinaryA>>, parsed |-> << <<TwapA>> >>]],
          [fits |-> {"LatestPublisherStakeCapsUpdateDataResponse"},
           doc |-> [json |-> TRUE, binary |-> <<BinaryA>>, parsed |-> << <<StakeCapsA>> >>]],
          [fits |-> {"Vec<PriceFeedMetadata>"}, doc |-> [json |-> TRUE, list |-> << >>]],
          [fits |-> {"Vec<PriceFeedMetadata>"}, doc |-> [json |-> TRUE, list |-> <<FeedMetadataA>>]]}

\* Status codes the server answers with.
RpcStatuses == {200, 304, 404, 500}

\* Response::error_for_status: Err for a client or a server error status.
IsErrorStatus(status) == status >= 400 /\ status <= 599

\* resp.json::<T>() for the call's T: << >> is Err, <<v>> is Ok(v).
DecodeFor(op, body) ==
    IF ResponseType(op) \notin body.fits \/ ~body.doc.json THEN << >>
    ELSE IF ResponseType(op) = "PriceUpdate" THEN Decode(body.doc)
    ELSE IF ResponseType(op) = "Vec<PriceFeedMetadata>" THEN << body.doc.list >>
    ELSE IF body.doc.binary = << >> THEN << >>
    ELSE << [binary |-> body.doc.binary[1], parsed |-> body.doc.parsed] >>

\* feeds.parsed.unwrap_or_default()
UnwrapOrDefaultWithMetadata(parsed) ==
    IF parsed = << >> THEN << >> ELSE SelectSeq(parsed[1], HasMetadata)

UnwrapOrDefault(parsed) ==
    IF parsed = << >> THEN << >> ELSE parsed[1]

\* What a call returns for a decoded body: get_latest_price_feeds returns the
\* feeds, the others the decoded value.
ReturnOf(op, v) ==
    IF op = "get_latest_price_feeds" THEN UnwrapOrDefault(v.parsed) ELSE v

\* `.error_for_status()?` and then `resp.json::<T>().await`.
OutcomeOfDecodeFirst(op, status, body) ==
    LET d == DecodeFor(op, body) IN
    IF d = << >> THEN [kind |-> "JsonError", value |-> << >>]
    ELSE IF IsErrorStatus(status) THEN [kind |-> "StatusError", value |-> <<status>>]
    ELSE [kind |-> "Ok", value |-> << ReturnOf(op, d[1]) >>]

OutcomeOf(op, status, body) ==
    IF IsErrorStatus(status) THEN [kind |-> "StatusError", value |-> <<status>>]
    ELSE LET d == DecodeFor(op, body) IN
         IF d = << >> THEN [kind |-> "JsonError", value |-> << >>]
         ELSE [kind |-> "Ok", value |-> << ReturnOf(op, d[1]) >>]

\* The `?` after a failed step returns the error: the number of send() calls
\* stays what it was.
AttemptsAfterErrorRetry(n) == n + 1

AttemptsAfterError(n) == n

\* A call starts: the request is built and send() is called.
RpcCall(op, idl) ==
    /\ rpc.pc \in {"idle", "done"}
    /\ rpc' = [pc |-> "sent", op |-> op, sent |-> 1,
               request |-> << RpcRequest(base_url, op, idl) >>,
               resp |-> << >>, outcome |-> << >>]
    /\ UNCHANGED <<px, base_url, streamVars>>

\* send() returns Err: no response arrived.
RpcSendFails ==
    /\ rpc.pc = "sent"
    /\ rpc' = [rpc EXCEPT !.sent = AttemptsAfterError(@),
                          !.pc = IF AttemptsAfterError(rpc.sent) = rpc.sent THEN "done" ELSE "sent",
                          !.outcome = << [kind |-> "SendError", value |-> << >>] >>]
    /\ UNCHANGED <<px, base_url, streamVars>>

\* send() returns a response: the status is checked, then the body decoded.
RpcResponse(status, body) ==
    /\ rpc.pc = "sent"
    /\ UrlOk(base_url)
    /\ LET o == OutcomeOf(rpc.op, status, body)
           n == IF o.kind = "Ok" THEN rpc.sent ELSE AttemptsAfterError(rpc.sent) IN
       rpc' = [rpc EXCEPT !.sent = n,
                          !.pc = IF n = rpc.sent THEN "done" ELSE "sent",
                          !.resp = << [status |-> status, body |-> body] >>,
                          !.outcome = <<o>>]
    /\ UNCHANGED <<px, base_url, streamVars>>

NextRpc ==
    \/ \E op \in RpcOps, idl \in IdListsPair : RpcCall(op, idl)
    \/ RpcSendFails
    \/ \E status \in RpcStatuses, body \in RpcBodies : RpcResponse(status, body)

SpecRpc == Init /\ [][NextRpc]_vars

\* --------------------------------------------------------- RpcPrice::to_f64
\* Unsigned integers are sequences of limbs, least significant first; a u64 has
\* U64Limbs limbs.
LimbBase == 256

U64Limbs == 8

\* f64 keeps this many significant bits.
MantissaBits == 53

\* The characters str::parse::<u64> takes as digits.
DigitChars == <<"0", "1", "2", "3", "4", "5", "6", "7", "8", "9">>

IsDigit(c) == \E i \in 1..Len(DigitChars) : DigitChars[i] = c

DigitVal(c) == (CHOOSE i \in 1..Len(DigitChars) : DigitChars[i] = c) - 1

\* a * k + c for one limb k: one limb more than a, the last one the carry out.
RECURSIVE MulAdd(_, _, _)
MulAdd(a, k, c) ==
    IF a = << >> THEN <<c>>
    ELSE LET v == Head(a) * k + c IN <<v % LimbBase>> \o MulAdd(Tail(a), k, v \div LimbBase)

\* a + b + c for two numbers of the same length: the sum has that length, the
\* carry out is dropped.
RECURSIVE AddLimbs(_, _, _)
AddLimbs(a, b, c) ==
    IF a = << >> THEN << >>
    ELSE LET v == Head(a) + Head(b) + c IN
         <<v % LimbBase>> \o AddLimbs(Tail(a), Tail(b), v \div LimbBase)

Zeros(n) == [i \in 1..n |-> 0]

\* The full product of a and b, Len(a) + Len(b) limbs.
RECURSIVE MulFull(_, _)
MulFull(a, b) ==
    IF b = << >> THEN Zeros(Len(a))
    ELSE AddLimbs(MulAdd(a, Head(b), 0) \o Zeros(Len(b) - 1),
                  <<0>> \o MulFull(a, Tail(b)), 0)

U64Of(n) == <<n>> \o Zeros(U64Limbs - 1)

\* u64 * u64: the low 64 bits, and whether the product needed more.
MulU64(a, b) ==
    LET p == MulFull(a, b) IN
    [val |-> SubSeq(p, 1, U64Limbs),
     overflow |-> \E i \in (U64Limbs + 1)..Len(p) : p[i] # 0]

\* u64::checked_mul(10) and checked_add(d) of the digit loop: << >> on overflow.
PushDigit(acc, d) ==
    LET p == MulAdd(acc, 10, d) IN
    IF p[U64Limbs + 1] # 0 THEN << >> ELSE << SubSeq(p, 1, U64Limbs) >>

RECURSIVE ParseDigits(_, _)
ParseDigits(acc, s) ==
    IF s = << >> THEN <<acc>>
    ELSE IF ~IsDigit(Head(s)) THEN << >>
    ELSE LET n == PushDigit(acc, DigitVal(Head(s))) IN
         IF n = << >> THEN << >> ELSE ParseDigits(n[1], Tail(s))

\* self.price.parse::<u64>().ok(): << >> is None. The empty string, a lone
\* sign, any character that is no digit (a leading "-" too) and a value above
\* u64::MAX are errors; one leading "+" is taken.
ParseU64(s) ==
    IF s = << >> THEN << >>
    ELSE IF Len(s) = 1 /\ Head(s) \in {"+", "-"} THEN << >>
    ELSE IF Head(s) = "+" THEN ParseDigits(U64Of(0), Tail(s))
    ELSE ParseDigits(U64Of(0), s)

\* i32::unsigned_abs. i32::MIN is left out of the exponents: 2^31 is more than
\* a TLC integer holds.
UnsignedAbs(e) == IF e < 0 THEN -e ELSE e

\* The loop of u64::pow: square and multiply, every product a u64 product.
RECURSIVE PowLoop(_, _, _, _)
PowLoop(base, acc, exp, ovf) ==
    LET odd == exp % 2 = 1
        m == MulU64(acc, base)
        acc1 == IF odd THEN m.val ELSE acc
        ovf1 == ovf \/ (odd /\ m.overflow) IN
    IF exp = 1 THEN [val |-> acc1, overflow |-> ovf1]
    ELSE LET sq == MulU64(base, base) IN
         PowLoop(sq.val, acc1, exp \div 2, ovf1 \/ sq.overflow)

\* 10_u64.pow(exp): the wrapped value and whether a product overflowed.
Pow10U64(exp) ==
    IF exp = 0 THEN [val |-> U64Of(1), overflow |-> FALSE]
    ELSE PowLoop(U64Of(10), U64Of(1), exp, FALSE)

\* The bits of a number, least significant first, without leading zeros.
RECURSIVE LimbBits(_, _)
LimbBits(v, n) == IF n = 0 THEN << >> ELSE <<v % 2>> \o LimbBits(v \div 2, n - 1)

RECURSIVE AllBits(_)
AllBits(a) == IF a = << >> THEN << >> ELSE LimbBits(Head(a), 8) \o AllBits(Tail(a))

RECURSIVE Strip(_)
Strip(b) == IF b # << >> /\ b[Len(b)] = 0 THEN Strip(SubSeq(b, 1, Len(b) - 1)) ELSE b

BitsOf(a) == Strip(AllBits(a))

\* b + 1 on bits.
RECURSIVE Inc(_)
Inc(b) ==
    IF b = << >> THEN <<1>>
    ELSE IF Head(b) = 0 THEN <<1>> \o Tail(b)
    ELSE <<0>> \o Inc(Tail(b))

\* `as f64` of an unsigned integer: the nearest number with MantissaBits
\* significant bits, ties to even. The f64 is written as the bits of its
\* (integer) value.
F64Of(a) ==
    LET b == BitsOf(a)
        drop == Len(b) - MantissaBits IN
    IF drop <= 0 THEN b
    ELSE LET high == SubSeq(b, drop + 1, Len(b))
             up == /\ b[drop] = 1
                   /\ (high[1] = 1 \/ \E i \in 1..(drop - 1) : b[i] = 1) IN
         Zeros(drop) \o (IF up THEN Inc(high) ELSE high)

\* RpcPrice::to_f64 under a build with or without overflow checks. Some is the
\* f64 quotient of num by den, written as the pair; a den of zero is a
\* division by 0.0.
ToF64(self, overflow_checks) ==
    LET p == ParseU64(self.price) IN
    IF p = << >> THEN [kind |-> "None"]
    ELSE LET d == Pow10U64(UnsignedAbs(self.expo)) IN
         IF d.overflow /\ overflow_checks THEN [kind |-> "Panic"]
         ELSE [kind |-> "Some", num |-> F64Of(p[1]), den |-> F64Of(d.val)]

\* The price strings and exponents to_f64 is called with.
PriceStrings ==
    { <<"1", "2", "9", "7", "1", "5", "0", "0", "0", "0", "0">>,
      <<"1", "6", "0", "6", "4", "4", "6", "6", "5", "0", "3", "3">>,
      <<"0">>,
      <<"1">>,
      <<"0", "0", "7">>,
      <<"+", "5">>,
      <<"-", "5">>,
      << >>,
      <<"a", "b", "c">>,
      <<"1", "8", "4", "4", "6", "7", "4", "4", "0", "7", "3", "7", "0", "9", "5", "5", "1", "6", "1", "5">>,
      <<"1", "8", "4", "4", "6", "7", "4", "4", "0", "7", "3", "7", "0", "9", "5", "5", "1", "6", "1", "6">> }

Exponents == {0, -8, 8, -18, -19, 19, -20, 20, -64, 64}

\* to_f64 is called on an RpcPrice.
PxCall(price, expo) ==
    /\ px.pc \in {"none", "returned"}
    /\ px' = [pc |-> "called", self |-> [price |-> price, expo |-> expo],
              self0 |-> [price |-> price, expo |-> expo], out |-> [kind |-> "none"]]
    /\ UNCHANGED <<rpc, base_url, streamVars>>

\* to_f64 runs to its end: it takes &self, so the RpcPrice stays as it is.
PxToF64(overflow_checks) ==
    /\ px.pc = "called"
    /\ px' = [px EXCEPT !.pc = "returned", !.out = ToF64(px.self, overflow_checks)]
    /\ UNCHANGED <<rpc, base_url, streamVars>>

NextPrice ==
    \/ \E price \in PriceStrings, expo \in Exponents : PxCall(price, expo)
    \/ \E overflow_checks \in BOOLEAN : PxToF64(overflow_checks)

SpecPrice == Init /\ [][NextPrice]_vars

\* ------------------------------------------------- what the claims speak of
Last(q) == q[Len(q)]

IsPrefix(p, q) == Len(p) <= Len(q) /\ \A i \in 1..Len(p) : p[i] = q[i]

RECURSIVE Flatten(_)
Flatten(qq) == IF qq = << >> THEN << >> ELSE Head(qq) \o Flatten(Tail(qq))

\* The entries of a JSON `parsed` array that carry metadata, in list order.
WithMeta(l) == SelectSeq(l, LAMBDA j : j.metadata # << >>)

\* The update a JSON entry with metadata stands for.
UpdateOf(j) ==
    [id |-> j.id[1], price |-> j.price[1], ema_price |-> j.ema_price[1],
     metadata |-> j.metadata[1]]

\* A message that decodes to an UpdateEnvelope with a parsed list.
HasParsedList(doc) == Decode(doc) # << >> /\ doc.parsed # << >>

\* The sink invocations a message calls for.
ExpectedOf(doc) ==
    IF HasParsedList(doc)
    THEN [i \in 1..Len(WithMeta(doc.parsed[1])) |-> UpdateOf(WithMeta(doc.parsed[1])[i])]
    ELSE << >>

\* The for loop of the latest message has run to its end.
Handled(t) == pc[t] \in {"Reading", "Connecting", "Backoff", "Cancelled"}

\* C1: a message that decodes to an envelope whose parsed list has N entries,
\* M of them with metadata, makes the task call the sink exactly M times: once
\* per entry with metadata, in list order, with that entry's id, price,
\* ema_price and metadata; entries without metadata cause no call.  While the
\* for loop runs the calls made are a prefix of those M.
C1_OneCallPerEntryWithMetadata ==
    \A t \in Tasks :
        (wire[t] # << >> /\ HasParsedList(Last(wire[t]))) =>
            LET l == Last(wire[t]).parsed[1]
                withMeta == {i \in 1..Len(l) : l[i].metadata # << >>}
            IN  /\ IsPrefix(curOut[t], ExpectedOf(Last(wire[t])))
                /\ Len(curOut[t]) <= Cardinality(withMeta)
                /\ Handled(t) =>
                     /\ Len(curOut[t]) = Cardinality(withMeta)
                     /\ curOut[t] = ExpectedOf(Last(wire[t]))

\* A message with N = 3 entries, M = 2 of them with metadata, has been handled.
C1_Witness ==
    \E t \in Tasks :
        /\ wire[t] # << >>
        /\ HasParsedList(Last(wire[t]))
        /\ Len(Last(wire[t]).parsed[1]) = 3
        /\ Len(curOut[t]) = 2
        /\ pc[t] = "Reading"

\* C2: a message whose body does not decode causes no sink call and leaves the
\* task Reading on the same open connection, with no new request built; a
\* valid message that follows it on that connection is delivered in full.
C2_BadMessageKeepsConnection ==
    /\ [][\A t \in Tasks :
            (Len(wire'[t]) = Len(wire[t]) + 1 /\ Decode(Last(wire'[t])) = << >>) =>
                /\ pc'[t] = "Reading"
                /\ conn[t] = "open" /\ conn'[t] = "open"
                /\ sinkLog'[t] = sinkLog[t]
                /\ curOut'[t] = << >>
                /\ req'[t] = req[t]
                /\ sinceOpen'[t] = sinceOpen[t] + 1]_vars
    /\ [](\A t \in Tasks :
            (/\ sinceOpen[t] >= 2
             /\ Decode(wire[t][Len(wire[t]) - 1]) = << >>
             /\ HasParsedList(Last(wire[t]))
             /\ Handled(t)) =>
                /\ curOut[t] = ExpectedOf(Last(wire[t]))
                /\ IsPrefix(curOut[t], SubSeq(sinkLog[t], Len(sinkLog[t]) - Len(curOut[t]) + 1, Len(sinkLog[t]))))

\* An undecodable message and then a valid one arrived on one connection, and
\* the valid one's updates reached the sink.
C2_Witness ==
    \E t \in Tasks :
        /\ sinceOpen[t] = 2
        /\ Decode(wire[t][1]) = << >>
        /\ HasParsedList(wire[t][2])
        /\ curOut[t] # << >>
        /\ curOut[t] = ExpectedOf(wire[t][2])
        /\ pc[t] = "Reading" /\ conn[t] = "open"

\* The ways an opened connection ends.
ConnectionEnds == {"ended", "fault", "eof"}

\* C3: after an open connection ends (end of stream or any other stream error)
\* the task makes a new connection attempt by itself, and when after that a
\* message with entries that carry metadata has arrived, the sink is called.
C3_ReconnectsAndDeliversAgain ==
    \A t \in Tasks :
        /\ (lastEv[t] \in ConnectionEnds) ~> (lastEv[t] \in {"new_ok", "new_err"})
        /\ (/\ endedOnce[t]
            /\ pc[t] = "Dispatch"
            /\ \E i \in 1..Len(items[t]) : items[t][i].metadata # << >>)
              ~> (pc[t] = "InSink")

\* After a connection ended, the sink is being called with an update that
\* arrived on a later connection.
C3_Witness ==
    \E t \in Tasks :
        /\ endedOnce[t]
        /\ sinceOpen[t] >= 1
        /\ pc[t] = "InSink"
        /\ curOut[t] # << >>

\* The ways an attempt to open the connection fails: EventSource::new gives
\* Err, or es.next() gives an error before Event::Open.
OpenFailures == {"new_err", "open_err"}

\* C4: whenever an attempt to open the connection fails, the 2-second backoff
\* wait lies between the failure and the next attempt (a pass through the top
\* of the loop never follows an open failure directly), and after any number
\* of open failures the task is still waiting or retrying unless cancelled.
C4_BackoffBeforeEveryRetry ==
    /\ [][\A t \in Tasks :
            (pc[t] = "Connecting" /\ pc'[t] # "Connecting") =>
                lastEv[t] \notin OpenFailures]_vars
    /\ [](\A t \in Tasks :
            lastEv[t] \in OpenFailures => pc[t] \in {"Backoff", "Connecting", "Cancelled"})

\* The control points of a task that is running.
Running == {"Connecting", "Backoff", "Reading", "Dispatch", "InSink"}

\* The failures the task meets.
Failures == OpenFailures \cup ConnectionEnds \cup {"bad_msg"}

\* C5 as stated: a started task that its owner has not cancelled is running,
\* and after an open failure, an end of stream or a stream error it is back at
\* Connecting or in the backoff that leads there.
C5_Original ==
    \A t \in Tasks :
        (pc[t] # "NotStarted" /\ ~abortReq[t]) =>
            /\ pc[t] \in Running
            /\ lastEv[t] \in OpenFailures \cup ConnectionEnds => pc[t] \in {"Connecting", "Backoff"}

\* C5 as amended: a started task that its owner has not cancelled is running
\* or was torn down by a panic of the sink during a sink call; Cancelled is
\* reached only after the owner's abort; after an open failure, an end of
\* stream or a stream error the task is back at Connecting or in the backoff
\* that leads there, and after an undecodable message it is still Reading.
C5_OnlyCancelOrSinkPanicEndsTask ==
    \A t \in Tasks :
        /\ pc[t] \in Running \cup {"NotStarted", "Cancelled", "Panicked"}
        /\ pc[t] = "Cancelled" => abortReq[t]
        /\ pc[t] = "Panicked" => (lastEv[t] = "sink_panic" /\ curOut[t] # << >>)
        /\ (pc[t] # "NotStarted" /\ ~abortReq[t] /\ pc[t] # "Panicked") =>
            /\ pc[t] \in Running
            /\ lastEv[t] \in OpenFailures \cup ConnectionEnds => pc[t] \in {"Connecting", "Backoff"}
            /\ lastEv[t] = "bad_msg" => pc[t] = "Reading"

\* The task met an undecodable message, the end of a connection and a failed
\* EventSource::new, was not cancelled, and is at the top of the loop again.
C5_Witness ==
    \E t \in Tasks :
        /\ ~abortReq[t]
        /\ wire[t] # << >> /\ Decode(wire[t][1]) = << >>
        /\ endedOnce[t]
        /\ lastEv[t] = "slept"
        /\ pc[t] = "Connecting"

\* The control points at which the task is suspended at an await.
Suspended == {"Reading", "Backoff"}

\* What a task does and holds (the clock of its sleep aside).
TaskActs(t) == <<pc[t], conn[t], req[t], wire[t], sinkLog[t], curOut[t], items[t], lastEv[t]>>

\* C6: once the handle is aborted, a task that is suspended (awaiting the
\* connection's opening or the next event in es.next(), or asleep in the
\* backoff) does nothing more than become Cancelled, it does become Cancelled,
\* and a Cancelled task makes no connection attempt and no sink call.
C6_AbortStopsAtSuspension ==
    /\ [][\A t \in Tasks :
            /\ (abortReq[t] /\ pc[t] \in Suspended /\ TaskActs(t)' # TaskActs(t)) =>
                    /\ pc'[t] = "Cancelled"
                    /\ sinkLog'[t] = sinkLog[t]
                    /\ req'[t] = req[t]
                    /\ wire'[t] = wire[t]
            /\ pc[t] = "Cancelled" =>
                    /\ TaskActs(t)' = TaskActs(t)
                    /\ conn[t] = "none"]_vars
    /\ \A t \in Tasks :
            (abortReq[t] /\ pc[t] \in Suspended) ~> (pc[t] = "Cancelled")

\* A task that had delivered updates was cancelled in the middle of a backoff
\* sleep.
C6_Witness ==
    \E t \in Tasks :
        /\ pc[t] = "Cancelled"
        /\ abortReq[t]
        /\ sleepLeft[t] > 0
        /\ sinkLog[t] # << >>

\* The sink calls that the messages q call for, message after message.
AllExpected(q) == Flatten([i \in 1..Len(q) |-> ExpectedOf(q[i])])

\* C7: the sink calls are in arrival order.  The calls made so far are those
\* of all earlier messages, complete, followed by the calls made for the
\* latest message, which are a prefix of the calls it calls for: nothing is
\* reordered, merged with another message, repeated or out of list position,
\* and no later message is taken up before the for loop of the earlier ended.
C7_SinkCallsInArrivalOrder ==
    \A t \in Tasks :
        /\ IsPrefix(sinkLog[t], AllExpected(wire[t]))
        /\ wire[t] # << >> =>
            /\ sinkLog[t] = AllExpected(SubSeq(wire[t], 1, Len(wire[t]) - 1)) \o curOut[t]
            /\ IsPrefix(curOut[t], ExpectedOf(Last(wire[t])))
        /\ Handled(t) => sinkLog[t] = AllExpected(wire[t])
        /\ pc[t] \in {"Dispatch", "InSink"} => (wire[t] # << >> /\ lastEv[t] = "msg")

\* Two messages that both call for sink calls were handled, three calls or more.
C7_Witness ==
    \E t \in Tasks :
        /\ Len(wire[t]) = 2
        /\ ExpectedOf(wire[t][1]) # << >>
        /\ ExpectedOf(wire[t][2]) # << >>
        /\ ExpectedOf(wire[t][1]) # ExpectedOf(wire[t][2])
        /\ Len(sinkLog[t]) >= 3
        /\ pc[t] = "Reading"

QueryFor(idl) == [i \in 1..Len(idl) |-> <<"ids[]", idl[i]>>]

\* C9: the task never changes its feed ids, and the request of every pass
\* through the top of the loop, the first and each one after a failure, is
\* for /v2/updates/price/stream on the client's base URL with exactly one
\* ids[] parameter per id the caller passed, in the caller's order.
C9_RequestAlwaysCarriesOriginalIds ==
    \A t \in Tasks :
        /\ pc[t] # "NotStarted" => ids[t] = ids0[t]
        /\ req[t] # << >> =>
            /\ req[t][1].url = <<base_url, "/v2/updates/price/stream">>
            /\ Len(req[t][1].query) = Len(ids0[t])
            /\ req[t][1].query = QueryFor(ids0[t])

\* After a connection ended, the next pass built the request for two ids.
C9_Witness ==
    \E t \in Tasks :
        /\ endedOnce[t]
        /\ lastEv[t] = "new_ok"
        /\ ids0[t] = <<"sol", "eth">>
        /\ req[t] = << [url |-> <<PUBLIC_BASE_URL, StreamPath>>,
                        query |-> << <<"ids[]", "sol">>, <<"ids[]", "eth">> >>] >>

\* All that belongs to one task.
TaskState(t) ==
    <<pc[t], ids[t], ids0[t], result[t], abortReq[t], conn[t], req[t], sleepLeft[t],
      items[t], wire[t], sinkLog[t], curOut[t], lastEv[t], endedOnce[t], sinceOpen[t]>>

\* C10: two tasks of one client are independent.  A step that changes one
\* task's state (a failure, a reconnect, a backoff, a cancellation, a message)
\* leaves the other task's state as it was, and each sink has received the
\* updates of the messages that arrived on its own task's connections, in
\* order, and nothing else.
C10_TasksAreIndependent ==
    /\ [][\A t \in Tasks : \A u \in Tasks \ {t} :
            TaskState(t)' # TaskState(t) => TaskState(u)' = TaskState(u)]_vars
    /\ [](\A t \in Tasks :
            /\ IsPrefix(sinkLog[t], AllExpected(wire[t]))
            /\ Handled(t) => sinkLog[t] = AllExpected(wire[t]))

\* One task was cancelled after a stream error without a delivery while the
\* other, started with other ids, delivered the update of its message.
C10_Witness ==
    /\ pc[1] = "Cancelled" /\ endedOnce[1] /\ sinkLog[1] = << >>
    /\ pc[2] = "Reading" /\ conn[2] = "open" /\ sinkLog[2] # << >>
    /\ ids0[1] # ids0[2]

\* C16: a clean end of the stream and any other error of the open stream are
\* handled the same way: the step leaves the task at the top of the loop with
\* the connection released and no sleep started, nothing else of the task is
\* changed, and the step that follows builds the request anew; neither of the
\* two is followed by a backoff wait.
C16_ClosedAndFaultedAlike ==
    /\ [][\A t \in Tasks :
            /\ (pc[t] = "Reading" /\ lastEv'[t] \in {"ended", "fault"}) =>
                    /\ conn[t] = "open"
                    /\ pc'[t] = "Connecting"
                    /\ conn'[t] = "none"
                    /\ sleepLeft'[t] = sleepLeft[t]
                    /\ <<ids[t], req[t], items[t], wire[t], sinkLog[t], abortReq[t]>>'
                         = <<ids[t], req[t], items[t], wire[t], sinkLog[t], abortReq[t]>>
            /\ (lastEv[t] \in {"ended", "fault"} /\ TaskActs(t)' # TaskActs(t)) =>
                    /\ lastEv'[t] \in {"new_ok", "new_err"}
                    /\ req'[t] = << [url |-> <<base_url, "/v2/updates/price/stream">>,
                                     query |-> QueryFor(ids0[t])] >>]_vars
    /\ [](\A t \in Tasks :
            lastEv[t] \in {"ended", "fault"} => (pc[t] = "Connecting" /\ conn[t] = "none"))

\* A stream fault has brought the task, which had received a message, to the
\* top of the loop.
C16_Witness ==
    \E t \in Tasks :
        /\ lastEv[t] = "fault"
        /\ pc[t] = "Connecting"
        /\ sinceOpen[t] >= 1
        /\ sleepLeft[t] = 0

\* C17: the sink is called synchronously and its failure is not caught.  While
\* a sink call has not returned the task takes no further entry and no further
\* event and makes no further call; after a panic of the sink the task does
\* nothing more, and the entries of the message that were still to come are
\* not delivered.
C17_SinkIsSynchronousAndUncaught ==
    /\ [][\A t \in Tasks :
            /\ pc[t] = "InSink" =>
                    /\ (\/ pc'[t] = "Panicked"
                        \/ <<items[t], conn[t]>>' = <<items[t], conn[t]>>)
                    /\ <<curOut[t], req[t]>>' = <<curOut[t], req[t]>>
                    /\ pc'[t] \in {"InSink", "Dispatch", "Panicked"}
                    /\ sinkLog'[t] = sinkLog[t] /\ wire'[t] = wire[t]
            /\ pc[t] = "Panicked" => TaskActs(t)' = TaskActs(t)
            /\ pc'[t] = "Panicked" => pc[t] \in {"InSink", "Panicked"}]_vars
    /\ [](\A t \in Tasks :
            (pc[t] = "Panicked" \/ lastEv[t] = "sink_panic") =>
                /\ pc[t] = "Panicked"
                /\ items[t] = << >>
                /\ sinkLog[t] = AllExpected(SubSeq(wire[t], 1, Len(wire[t]) - 1)) \o curOut[t])

\* The sink panicked in the first call for a message that called for two.
C17_Witness ==
    \E t \in Tasks :
        /\ pc[t] = "Panicked"
        /\ Len(curOut[t]) = 1
        /\ Len(ExpectedOf(Last(wire[t]))) = 2

\* C18: the sink is called only from the for loop over a message received on
\* the task's open connection, never at the top of the loop, in the backoff,
\* or on the way out of an ended or faulted connection; an Open event and a
\* decodable message without a parsed list cause no call and leave the task
\* Reading on the same connection.
C18_SinkOnlyWhileReadingMessage ==
    [][\A t \in Tasks :
        /\ sinkLog'[t] # sinkLog[t] =>
                /\ pc[t] = "Dispatch" /\ pc'[t] = "InSink"
                /\ conn[t] = "open" /\ conn'[t] = "open"
                /\ lastEv[t] = "msg"
                /\ Len(sinkLog'[t]) = Len(sinkLog[t]) + 1
        /\ (lastEv'[t] = "open" /\ lastEv[t] # "open") =>
                /\ conn[t] = "opening" /\ conn'[t] = "open"
                /\ pc[t] = "Reading" /\ pc'[t] = "Reading"
                /\ sinkLog'[t] = sinkLog[t]
        /\ (/\ Len(wire'[t]) = Len(wire[t]) + 1
            /\ Decode(Last(wire'[t])) # << >>
            /\ Last(wire'[t]).parsed = << >>) =>
                /\ pc'[t] = "Reading"
                /\ conn[t] = "open" /\ conn'[t] = "open"
                /\ sinkLog'[t] = sinkLog[t]
                /\ req'[t] = req[t]]_vars

\* After a binary-only message the task, still Reading on the same
\* connection, delivered the update of the next message.
C18_Witness ==
    \E t \in Tasks :
        /\ sinceOpen[t] = 2
        /\ wire[t][1] = DocBinaryOnly
        /\ pc[t] = "InSink"
        /\ sinkLog[t] # << >>

\* C19: a task holds at most one EventSource.  At the top of the loop and in
\* the backoff the connection of the iteration before is released and no
\* entry of it is pending; a request is built and an EventSource made only
\* from there; and every sink call and every message belongs to the one
\* connection that is open.
C19_OneConnectionPerTask ==
    /\ [](\A t \in Tasks :
            /\ pc[t] \in {"NotStarted", "Connecting", "Backoff", "Cancelled", "Panicked"} =>
                    (conn[t] = "none" /\ items[t] = << >>)
            /\ pc[t] \in {"Dispatch", "InSink"} => conn[t] = "open"
            /\ pc[t] = "Reading" => conn[t] \in {"opening", "open"})
    /\ [][\A t \in Tasks :
            /\ (req'[t] # req[t] \/ (conn'[t] = "opening" /\ conn[t] # "opening")) =>
                    (pc[t] = "Connecting" /\ conn[t] = "none" /\ items[t] = << >>)
            /\ (sinkLog'[t] # sinkLog[t] \/ wire'[t] # wire[t]) =>
                    (conn[t] = "open" /\ conn'[t] = "open")]_vars

\* A second EventSource was made after the first had delivered an update and
\* ended.
C19_Witness ==
    \E t \in Tasks :
        /\ endedOnce[t]
        /\ sinkLog[t] # << >>
        /\ conn[t] = "opening"
        /\ sinceOpen[t] = 0

\* ------------------------------------------------- request/response claims
\* The call has returned after a response arrived.
Answered == rpc.pc = "done" /\ rpc.resp # << >>

\* The status of the response is a 4xx or a 5xx.
FailureStatus == rpc.resp[1].status \in 400..599

\* The body of the response decodes as the type the call asks for.
BodyDecodes == DecodeFor(rpc.op, rpc.resp[1].body) # << >>

\* C11: for each of the five calls, a response with a 4xx or 5xx status makes
\* the call return the status error whatever the body is: the status is
\* checked before the body is decoded, so the call returns neither a success
\* value (an empty list included) nor a decode error.
C11_ErrorStatusBeforeBody ==
    (Answered /\ FailureStatus) =>
        /\ rpc.outcome[1].kind = "StatusError"
        /\ rpc.outcome[1].value = << rpc.resp[1].status >>

\* get_latest_price_feeds got a 404 whose body would decode to no feeds, and
\* returned the status error.
C11_Witness ==
    /\ Answered
    /\ rpc.op = "get_latest_price_feeds"
    /\ rpc.resp[1].status = 404
    /\ rpc.resp[1].body.doc = DocBinaryOnly
    /\ BodyDecodes
    /\ rpc.outcome[1].kind = "StatusError"

\* C12: every call calls send() exactly once: whether the attempt ends in
\* success, a transport error, a status error or a decode error, the call
\* returns that outcome and sends nothing again.
C12_OneAttemptPerCall ==
    /\ rpc.pc = "sent" => (rpc.sent = 1 /\ rpc.outcome = << >> /\ rpc.resp = << >>)
    /\ rpc.pc = "done" =>
        /\ rpc.sent = 1
        /\ rpc.outcome # << >>
        /\ rpc.outcome[1].kind \in {"Ok", "SendError", "StatusError", "JsonError"}
        /\ rpc.outcome[1].kind = "SendError" <=> rpc.resp = << >>
        /\ rpc.resp # << >> =>
               rpc.outcome[1].kind = OutcomeOf(rpc.op, rpc.resp[1].status, rpc.resp[1].body).kind

\* A call whose body could not be decoded has returned the decode error after
\* its one send().
C12_Witness ==
    /\ Answered
    /\ rpc.outcome[1].kind = "JsonError"
    /\ rpc.sent = 1

\* C15: get_latest_price_feeds, given a response whose status is no error and
\* whose body decodes, returns Ok: the empty list when `parsed` is absent or
\* empty, and otherwise every entry of `parsed` in order, those without
\* metadata included.
C15_LatestFeedsDefaultsToEmpty ==
    (Answered /\ rpc.op = "get_latest_price_feeds" /\ ~FailureStatus /\ BodyDecodes) =>
        LET parsed == rpc.resp[1].body.doc.parsed
            o == rpc.outcome[1] IN
        /\ o.kind = "Ok"
        /\ (parsed = << >> \/ parsed = << << >> >>) => o.value[1] = << >>
        /\ parsed # << >> =>
            /\ Len(o.value[1]) = Len(parsed[1])
            /\ \A i \in 1..Len(parsed[1]) :
                /\ o.value[1][i].id = parsed[1][i].id[1]
                /\ o.value[1][i].metadata = parsed[1][i].metadata

\* A 200 whose body has `binary` and no `parsed` gave Ok with the empty list.
C15_Witness ==
    /\ Answered
    /\ rpc.op = "get_latest_price_feeds"
    /\ rpc.resp[1].status = 200
    /\ rpc.resp[1].body.doc = DocBinaryOnly
    /\ rpc.outcome[1].kind = "Ok"
    /\ rpc.outcome[1].value = << << >> >>

\* ------------------------------------------------------------ to_f64 claims
\* A non-negative integer literal: digits, with or without a leading "+".
IsNatLiteral(s) ==
    LET d == IF s # << >> /\ Head(s) = "+" THEN Tail(s) ELSE s IN
    d # << >> /\ \A i \in 1..Len(d) : IsDigit(d[i])

\* A number without its leading zero limbs.
Trim(a) ==
    IF \A i \in 1..Len(a) : a[i] = 0 THEN << >>
    ELSE SubSeq(a, 1, CHOOSE i \in 1..Len(a) : a[i] # 0 /\ \A j \in (i + 1)..Len(a) : a[j] = 0)

\* The integer a literal denotes, with as many limbs as it needs.
RECURSIVE NatOfDigits(_, _)
NatOfDigits(acc, s) ==
    IF s = << >> THEN acc ELSE NatOfDigits(Trim(MulAdd(acc, 10, DigitVal(Head(s)))), Tail(s))

NatOf(s) == NatOfDigits(<<0>>, IF Head(s) = "+" THEN Tail(s) ELSE s)

\* acc * 10^n, with as many limbs as it needs; zero stays zero.
RECURSIVE TimesPow10(_, _)
TimesPow10(acc, n) ==
    LET next == Trim(MulAdd(acc, 10, 0)) IN
    IF n = 0 \/ next = << >> THEN acc ELSE TimesPow10(next, n - 1)

TruePow10(n) == TimesPow10(<<1>>, n)

Magnitude(e) == IF e < 0 THEN -e ELSE e

\* C13: for every price that is a non-negative integer string and every
\* exponent E, to_f64 returns the quotient of the parsed price by 10^|E|, the
\* divisor being the true power of ten (the 64-bit power neither overflows nor
\* wraps); the result depends on |E| only, so E and -E give the same.
C13_DivisorIsTruePowerOfTen ==
    (px.pc = "returned" /\ IsNatLiteral(px.self.price)) =>
        /\ px.out.kind = "Some"
        /\ px.out.num = F64Of(NatOf(px.self.price))
        /\ px.out.den = F64Of(TruePow10(Magnitude(px.self.expo)))

\* C14: to_f64 returns None exactly when the price is no non-negative integer
\* literal, returns a value for every price that is one, and leaves the
\* RpcPrice as it was.
C14_NoneExactlyOnNonInteger ==
    px.pc = "returned" =>
        /\ px.out.kind = "None" <=> ~IsNatLiteral(px.self.price)
        /\ IsNatLiteral(px.self.price) => px.out.kind = "Some"
        /\ px.self = px.self0

====
